---------------------------- MODULE Spec2Model ----------------------------
(***************************************************************************)
(* Model of src/project1/index.js: the job-listing extraction pipeline     *)
(* openChromeAndSearch.  Texts are sequences of one-character strings, so  *)
(* that trim, toLowerCase, includes, startsWith and the regular            *)
(* expressions of the source are computed and not assumed.                 *)
(***************************************************************************)
EXTENDS Naturals, Integers, Sequences, FiniteSets, TLC

(***************************************************************************)
(* Bounds of the model.                                                    *)
(***************************************************************************)
MaxMarkers == 2     \* title markers (.tNxQIb.PUpOsf) on the page
MaxShapes == 2      \* elements visited by the fallback shape scan
MaxHeadings == 1    \* h3/h4 elements visited by the fallback heading scan
MaxJobCount == 2    \* title markers counted when the drill-down starts
MaxAnchors == 2     \* anchors of one container in the link-extraction check
MaxNodes == 2       \* preferred result nodes of one search-result page
MaxRecords == 6     \* records of the result collection in the summary check

(***************************************************************************)
(* Characters and texts.                                                   *)
(***************************************************************************)
Upper == <<"A","B","C","D","E","F","G","H","I","J","K","L","M",
           "N","O","P","Q","R","S","T","U","V","W","X","Y","Z">>
Lower == <<"a","b","c","d","e","f","g","h","i","j","k","l","m",
           "n","o","p","q","r","s","t","u","v","w","x","y","z">>
Digits == {"0","1","2","3","4","5","6","7","8","9"}

IsUpper(c) == \E i \in 1..Len(Upper) : Upper[i] = c
IsLower(c) == \E i \in 1..Len(Lower) : Lower[i] = c
IsDigit(c) == c \in Digits
IsSpace(c) == c \in {" ", "\n", "\t", "\r"}
IsLineTerminator(c) == c \in {"\n", "\r"}

ToLowerChar(c) ==
  IF IsUpper(c) THEN Lower[CHOOSE i \in 1..Len(Upper) : Upper[i] = c] ELSE c

\* String.prototype.toLowerCase
toLowerCase(s) == [i \in 1..Len(s) |-> ToLowerChar(s[i])]

SetMin(S) == CHOOSE x \in S : \A y \in S : x <= y
SetMax(S) == CHOOSE x \in S : \A y \in S : y <= x

\* String.prototype.trim
trim(s) ==
  LET keep == {i \in 1..Len(s) : ~IsSpace(s[i])}
  IN  IF keep = {} THEN << >> ELSE SubSeq(s, SetMin(keep), SetMax(keep))

\* String.prototype.startsWith
startsWith(s, p) == Len(p) <= Len(s) /\ SubSeq(s, 1, Len(p)) = p

\* String.prototype.endsWith
endsWith(s, p) == Len(p) <= Len(s) /\ SubSeq(s, Len(s) - Len(p) + 1, Len(s)) = p

\* String.prototype.includes
includes(s, p) ==
  \E i \in 1..(Len(s) + 1) : i + Len(p) - 1 <= Len(s) /\ SubSeq(s, i, i + Len(p) - 1) = p

\* 1-based index of the first occurrence of character c in s, 0 when absent
IndexOfChar(s, c) ==
  LET at == {i \in 1..Len(s) : s[i] = c}
  IN  IF at = {} THEN 0 ELSE SetMin(at)

\* s.split('\n')
RECURSIVE splitLines(_)
splitLines(s) ==
  LET k == IndexOfChar(s, "\n")
  IN  IF k = 0 THEN <<s>>
      ELSE <<SubSeq(s, 1, k - 1)>> \o splitLines(SubSeq(s, k + 1, Len(s)))

\* Array.prototype.filter
RECURSIVE SelectNonEmpty(_)
SelectNonEmpty(q) ==
  IF q = << >> THEN << >>
  ELSE IF Len(Head(q)) > 0 THEN <<Head(q)>> \o SelectNonEmpty(Tail(q))
       ELSE SelectNonEmpty(Tail(q))

\* text.split('\n').map(l => l.trim()).filter(l => l.length > 0)
textLines(s) ==
  LET raw == splitLines(s)
  IN  SelectNonEmpty([i \in 1..Len(raw) |-> trim(raw[i])])

\* 1-based index of the first element of q satisfying P, 0 when none does
FirstIndex(q, P(_)) ==
  LET at == {i \in 1..Len(q) : P(q[i])}
  IN  IF at = {} THEN 0 ELSE SetMin(at)

\* sequences over S of length 0..n
SeqUpTo(S, n) == UNION {[1..k -> S] : k \in 0..n}

(***************************************************************************)
(* Text literals used by the source (vocabularies, prefixes) and by the    *)
(* inputs of the model.                                                    *)
(***************************************************************************)
Empty == << >>
W_apply == <<"a","p","p","l","y">>
W_viewjob == <<"v","i","e","w"," ","j","o","b">>
W_learnmore == <<"l","e","a","r","n"," ","m","o","r","e">>
W_srilanka == <<"s","r","i"," ","l","a","n","k","a">>
W_colombo == <<"c","o","l","o","m","b","o">>
W_remote == <<"r","e","m","o","t","e">>
W_hybrid == <<"h","y","b","r","i","d">>
W_ago == <<"a","g","o">>
W_jobs == <<"j","o","b","s">>
W_googlecom == <<"g","o","o","g","l","e",".","c","o","m">>
W_view == <<"v","i","e","w">>
SIG_SEP == <<"_","_">>
GOOGLE_REDIRECT_PREFIX == <<"h","t","t","p","s",":","/","/","w","w","w",".","g","o","o","g","l","e",".","c","o","m","/","u","r","l","?","q","=">>
SEARCH_MARK == <<"/","s","e","a","r","c","h","?">>

T_Devs == <<"D","e","v","s">>
T_Dev == <<"D","e","v">>
T_DevPadded == <<" ","D","e","v"," ">>
T_QA == <<"Q","A">>
T_Blank == <<" ">>
T_Acme == <<"A","c","m","e">>
T_Beta == <<"B","e","t","a">>
T_Colombo == <<"C","o","l","o","m","b","o">>
T_Remote == <<"R","e","m","o","t","e">>
T_Kandy == <<"K","a","n","d","y",","," ","L","K">>
T_2DaysAgo == <<"2"," ","d","a","y","s"," ","a","g","o">>
T_Desc20 == <<"B","u","i","l","d"," ","w","e","b"," ","a","p","p","s"," ","d","a","i","l","y">>
T_Desc21 == <<"B","u","i","l","d"," ","w","e","b"," ","a","p","p","s"," ","d","a","i","l","y","!">>
T_Short == <<"F","u","l","l"," ","t","i","m","e">>
T_Home == <<"H","o","m","e">>
T_ApplyNow == <<"A","p","p","l","y"," ","N","o","w">>
T_APPLY == <<"A","P","P","L","Y">>
T_ViewJob == <<"V","i","e","w"," ","J","o","b">>
T_LearnMore == <<"L","e","a","r","n"," ","M","o","r","e">>
T_Site == <<"S","i","t","e">>
U_A == <<"a",".","i","o","/","j","o","b","s","/","a">>
U_B == <<"b",".","i","o","/","j","o","b","s","/","b">>
U_C == <<"c",".","i","o","/","c">>
U_S == <<"s",".","i","o","/","j","o","b","s","/","s">>
U_Target == <<"h","t","t","p","s",":","/","/","t",".","i","o","/","j","?","a","=","1">>
U_TargetEnc == <<"h","t","t","p","s","%","3","A","%","2","F","%","2","F","t",".","i","o","%","2","F","j","%","3","F","a","%","3","D","1","&","s","a","=","U">>
U_Plain == <<"h","t","t","p","s",":","/","/","p",".","i","o","/","j","o","b">>
U_Internal == <<"h","t","t","p","s",":","/","/","w","w","w",".","g","o","o","g","l","e",".","c","o","m","/","s","e","a","r","c","h","?","q","=","x">>
U_Wrapped == GOOGLE_REDIRECT_PREFIX \o U_TargetEnc
U_WrappedEmpty == GOOGLE_REDIRECT_PREFIX

(***************************************************************************)
(* Regular expressions of the source.                                      *)
(***************************************************************************)
\* /^\d+.*ago$/ : a digit first, "ago" last, no line terminator in between
matchesTimeAgo(s) ==
  /\ Len(s) >= 4
  /\ IsDigit(s[1])
  /\ endsWith(s, W_ago)
  /\ \A i \in 2..(Len(s) - 3) : ~IsLineTerminator(s[i])

\* /^[A-Z][a-z]+,\s*[A-Z]/ : "City, Region"
matchesCityRegion(s) ==
  \E c \in 3..Len(s) :
     /\ IsUpper(s[1])
     /\ \A i \in 2..(c - 1) : IsLower(s[i])
     /\ s[c] = ","
     /\ \E u \in (c + 1)..Len(s) :
          /\ \A i \in (c + 1)..(u - 1) : IsSpace(s[i])
          /\ IsUpper(s[u])

(***************************************************************************)
(* Anchors and link extraction.  An anchor is                              *)
(*   [text, aria, href, special]: innerText, aria-label ("" when absent),  *)
(*   href ("" when the element has no href attribute) and whether it       *)
(*   carries the dedicated apply-button class.  A root is the sequence of  *)
(*   the anchors below it in document order; an absent root is Null.       *)
(***************************************************************************)
Null == << >>
Some(x) == <<x>>

Anchor(text, aria, href, special) ==
  [text |-> text, aria |-> aria, href |-> href, special |-> special]

\* root.querySelectorAll('a[href]')
RECURSIVE WithHref(_)
WithHref(anchors) ==
  IF anchors = << >> THEN << >>
  ELSE IF Head(anchors).href # Empty THEN <<Head(anchors)>> \o WithHref(Tail(anchors))
       ELSE WithHref(Tail(anchors))

IsSpecial(a) == a.special

\* root.querySelector('.nNzjpf-... a, a.nNzjpf-...') : Null or Some(anchor)
querySpecial(anchors) ==
  LET k == FirstIndex(anchors, IsSpecial)
  IN  IF k = 0 THEN Null ELSE Some(anchors[k])

\* the vocabulary test of findApplyLink on one anchor
IsPreferredAnchor(a) ==
  LET text == toLowerCase(trim(a.text))
      aria == toLowerCase(a.aria)
  IN  \/ includes(text, W_apply)
      \/ includes(text, W_viewjob)
      \/ includes(aria, W_apply)
      \/ includes(aria, W_viewjob)
      \/ includes(text, W_learnmore)

\* findApplyLink(root), root = Null or Some(anchors below the root)
MutFindApplyLinkNoSpecial(root) ==
  IF root = Null THEN Empty
  ELSE LET anchors == WithHref(root[1])
           k == FirstIndex(anchors, IsPreferredAnchor)
       IN  IF k # 0 THEN anchors[k].href
           ELSE IF anchors # << >> THEN anchors[1].href ELSE Empty

findApplyLink(root) ==
  IF root = Null THEN Empty
  ELSE LET special == querySpecial(root[1])
           anchors == WithHref(root[1])
           k == FirstIndex(anchors, IsPreferredAnchor)
       IN  IF special # Null /\ special[1].href # Empty THEN special[1].href
           ELSE IF k # 0 THEN anchors[k].href
           ELSE IF anchors # << >> THEN anchors[1].href ELSE Empty

Job(title, company, location, description, link, applyLink) ==
  [title |-> title, company |-> company, location |-> location,
   description |-> description, link |-> link, applyLink |-> applyLink]

(***************************************************************************)
(* Primary strategy (classBasedResults).  A card is what the queries of    *)
(* one title marker see in its jobCard: the innerText of the marker, of    *)
(* the company, location and description elements ("" when the element is  *)
(* absent) and the anchors of the jobCard.                                 *)
(***************************************************************************)
Card(title, company, location, rawDescription, anchors) ==
  [title |-> title, company |-> company, location |-> location,
   rawDescription |-> rawDescription, anchors |-> anchors]

\* description: accepted only when different from title, company, location
primaryDescription(raw, title, company, location) ==
  IF raw # Empty /\ raw # title /\ raw # company /\ raw # location THEN raw ELSE Empty

\* link = linkEl?.href || applyLink || ''
primaryLink(anchors, applyLink) ==
  LET specialLinkEl == querySpecial(anchors)
      withHref == WithHref(anchors)
      linkEl == IF specialLinkEl # Null THEN specialLinkEl
                ELSE IF withHref # << >> THEN Some(withHref[1]) ELSE Null
  IN  IF linkEl # Null /\ linkEl[1].href # Empty THEN linkEl[1].href
      ELSE applyLink

\* the record built from one title marker
primaryJob(card) ==
  LET title == trim(card.title)
      company == trim(card.company)
      location == trim(card.location)
      applyLink == findApplyLink(Some(card.anchors))
  IN  Job(title, company, location,
          primaryDescription(trim(card.rawDescription), title, company, location),
          primaryLink(card.anchors, applyLink), applyLink)

\* `${title}__${company}__${location}`
signature(job) == job.title \o SIG_SEP \o job.company \o SIG_SEP \o job.location

\* if (title && !seen.has(signature))
MutPrimaryEmitsAnyTitle(job, seen) == signature(job) \notin seen

primaryEmits(job, seen) == job.title # Empty /\ signature(job) \notin seen

\* titleElements.forEach(...) with the accumulators jobs and seen
RECURSIVE primaryScan(_, _, _)
primaryScan(markers, jobs, seen) ==
  IF markers = << >> THEN jobs
  ELSE LET job == primaryJob(Head(markers))
       IN  IF primaryEmits(job, seen)
           THEN primaryScan(Tail(markers), Append(jobs, job), seen \cup {signature(job)})
           ELSE primaryScan(Tail(markers), jobs, seen)

classBasedExtract(markers) == primaryScan(markers, << >>, {})

(***************************************************************************)
(* Fallback strategy, shape scan.  An element is                           *)
(*   [jobTitle, anchors, outer, bySel, allText]: the innerText of the      *)
(*   first title-like heading (Null when none), the anchors below the      *)
(*   element, the enclosing anchor (Null when none), for each selector the *)
(*   innerTexts of the matching descendants in document order, and the     *)
(*   element's own innerText.                                              *)
(***************************************************************************)
Element(jobTitle, anchors, outer, bySel, allText) ==
  [jobTitle |-> jobTitle, anchors |-> anchors, outer |-> outer,
   bySel |-> bySel, allText |-> allText]

TextsOf(el, sel) == IF sel \in DOMAIN el.bySel THEN el.bySel[sel] ELSE << >>

companySelectors == <<".vNEEBe", ".Qk80Jf", ".nDc9Hc", "[data-attrid=subtitle]", ".s", ".Yg3bIe">>
locationSelectors == <<".Qk80Jf", ".s", ".Yg3bIe", "[data-attrid]">>
descSelectors == <<".NgUYpe", ".Yg3bIe", ".s", "span[line-clamp]", ".VwiC3b",
                   "[data-attrid=description]", ".PwjeAc span">>

\* linkElement of the shape scan: Null or Some(anchor)
shapeLinkElement(el) ==
  LET specialLink == querySpecial(el.anchors)
      withHref == WithHref(el.anchors)
  IN  IF specialLink # Null THEN specialLink
      ELSE IF withHref # << >> THEN Some(withHref[1])
      ELSE el.outer

\* the first text of every selector, in selector order (querySelector)
RECURSIVE FirstPerSelector(_, _)
FirstPerSelector(el, sels) ==
  IF sels = << >> THEN << >>
  ELSE LET found == TextsOf(el, Head(sels))
       IN  (IF found = << >> THEN << >> ELSE <<trim(found[1])>>)
           \o FirstPerSelector(el, Tail(sels))

\* every text of every selector, in selector then document order (querySelectorAll)
RECURSIVE AllPerSelector(_, _)
AllPerSelector(el, sels) ==
  IF sels = << >> THEN << >>
  ELSE LET found == TextsOf(el, Head(sels))
       IN  [i \in 1..Len(found) |-> trim(found[i])] \o AllPerSelector(el, Tail(sels))

IsCompanyText(text) ==
  /\ text # Empty
  /\ Len(text) < 100
  /\ ~includes(toLowerCase(text), W_srilanka)
  /\ ~includes(toLowerCase(text), W_colombo)
  /\ ~matchesTimeAgo(text)

shapeCompany(el) ==
  LET cands == FirstPerSelector(el, companySelectors)
      k == FirstIndex(cands, IsCompanyText)
  IN  IF k = 0 THEN Empty ELSE cands[k]

IsLocationText(text) ==
  /\ text # Empty
  /\ \/ includes(toLowerCase(text), W_srilanka)
     \/ includes(toLowerCase(text), W_colombo)
     \/ includes(toLowerCase(text), W_remote)
     \/ includes(toLowerCase(text), W_hybrid)
     \/ matchesCityRegion(text)
     \/ ~matchesTimeAgo(text)

shapeLocation(el, companyName) ==
  LET cands == AllPerSelector(el, locationSelectors)
      Ok(text) == IsLocationText(text) /\ text # companyName
      k == FirstIndex(cands, Ok)
  IN  IF k = 0 THEN Empty ELSE cands[k]

\* text.length > 20
MutDescriptionTextAtLeast20(text, title, companyName, location) ==
  /\ text # Empty
  /\ Len(text) >= 20
  /\ text # title
  /\ text # companyName
  /\ text # location
  /\ ~matchesTimeAgo(text)

IsDescriptionText(text, title, companyName, location) ==
  /\ text # Empty
  /\ Len(text) > 20
  /\ text # title
  /\ text # companyName
  /\ text # location
  /\ ~matchesTimeAgo(text)

IsDescriptionLine(line, title, companyName, location) ==
  /\ line # title
  /\ line # companyName
  /\ line # location
  /\ Len(line) > 20
  /\ ~matchesTimeAgo(line)
  /\ ~includes(toLowerCase(line), W_apply)
  /\ ~includes(toLowerCase(line), W_view)

shapeDescription(el, title, companyName, location) ==
  LET cands == FirstPerSelector(el, descSelectors)
      OkSel(text) == IsDescriptionText(text, title, companyName, location)
      k == FirstIndex(cands, OkSel)
      lines == textLines(el.allText)
      OkLine(line) == IsDescriptionLine(line, title, companyName, location)
      j == FirstIndex(lines, OkLine)
  IN  IF k # 0 THEN cands[k]
      ELSE IF j # 0 THEN lines[j] ELSE Empty

\* if (title && link && !seenLinks.has(link) && title.length > 3)
MutShapeEmitsLen3(title, link, seenLinks) ==
  title # Empty /\ link # Empty /\ link \notin seenLinks /\ Len(title) >= 3

shapeEmits(title, link, seenLinks) ==
  title # Empty /\ link # Empty /\ link \notin seenLinks /\ Len(title) > 3

shapeJob(el) ==
  LET title == trim(el.jobTitle[1])
      link == shapeLinkElement(el)[1].href
      companyName == shapeCompany(el)
      location == shapeLocation(el, companyName)
  IN  Job(title, companyName, location,
          shapeDescription(el, title, companyName, location),
          link, findApplyLink(Some(el.anchors)))

\* for (const selector of jobSelectors) elements.forEach(...): the elements
\* in visiting order, with the accumulators searchResults and seenLinks
RECURSIVE shapeScan(_, _, _)
shapeScan(elements, searchResults, seenLinks) ==
  IF elements = << >> THEN [searchResults |-> searchResults, seenLinks |-> seenLinks]
  ELSE LET el == Head(elements)
           hasBoth == el.jobTitle # Null /\ shapeLinkElement(el) # Null
       IN  IF hasBoth /\ shapeEmits(trim(el.jobTitle[1]), shapeLinkElement(el)[1].href, seenLinks)
           THEN shapeScan(Tail(elements), Append(searchResults, shapeJob(el)),
                          seenLinks \cup {shapeLinkElement(el)[1].href})
           ELSE shapeScan(Tail(elements), searchResults, seenLinks)

(***************************************************************************)
(* Fallback strategy, heading scan.  A heading is                          *)
(*   [text, linkElement, parent, anchors]: its innerText, the anchor       *)
(*   resolved for it (Null when none), the enclosing result container      *)
(*   ([text, anchors], Null when none) and the anchors below the heading.  *)
(***************************************************************************)
Heading(text, linkElement, parent, anchors) ==
  [text |-> text, linkElement |-> linkElement, parent |-> parent, anchors |-> anchors]

Container(text, anchors) == [text |-> text, anchors |-> anchors]

\* if (title && title.length > 3)
headingTitleOk(title) == title # Empty /\ Len(title) > 3

\* if (link && !seenLinks.has(link) && (link.includes('jobs') || link.includes('google.com')))
headingLinkOk(link, seenLinks) ==
  /\ link # Empty
  /\ link \notin seenLinks
  /\ (includes(link, W_jobs) \/ includes(link, W_googlecom))

\* the loop over the lines of the parent: [companyName, location, description]
RECURSIVE headingFields(_, _, _)
headingFields(lines, title, acc) ==
  IF lines = << >> THEN acc
  ELSE LET line == Head(lines)
           lower == toLowerCase(line)
           next ==
             IF line = title THEN acc
             ELSE IF acc.companyName = Empty /\ Len(line) < 50 /\ ~matchesTimeAgo(line)
                  THEN [acc EXCEPT !.companyName = line]
             ELSE IF acc.location = Empty
                     /\ (includes(lower, W_srilanka) \/ includes(lower, W_colombo)
                         \/ includes(lower, W_remote))
                  THEN [acc EXCEPT !.location = line]
             ELSE IF acc.description = Empty /\ Len(line) > 20
                  THEN [acc EXCEPT !.description = line]
             ELSE acc
       IN  headingFields(Tail(lines), title, next)

headingJob(h) ==
  LET title == trim(h.text)
      none == [companyName |-> Empty, location |-> Empty, description |-> Empty]
      f == IF h.parent = Null THEN none
           ELSE headingFields(textLines(h.parent[1].text), title, none)
      root == IF h.parent # Null THEN Some(h.parent[1].anchors) ELSE Some(h.anchors)
  IN  Job(title, f.companyName, f.location, f.description,
          h.linkElement[1].href, findApplyLink(root))

LinksOf(jobs) == {jobs[i].link : i \in 1..Len(jobs)}

\* headingElements.forEach(...) with the accumulators searchResults and seenLinks
RECURSIVE headingScan(_, _, _)
headingScan(headings, searchResults, seenLinks) ==
  IF headings = << >> THEN searchResults
  ELSE LET h == Head(headings)
           ok == /\ headingTitleOk(trim(h.text))
                 /\ h.linkElement # Null
                 /\ headingLinkOk(h.linkElement[1].href, seenLinks)
       IN  IF ok
           THEN headingScan(Tail(headings),
                            IF h.linkElement[1].href \notin LinksOf(searchResults)
                            THEN Append(searchResults, headingJob(h))
                            ELSE searchResults,
                            seenLinks \cup {h.linkElement[1].href})
           ELSE headingScan(Tail(headings), searchResults, seenLinks)

\* the fallback evaluation: shape scan, then heading scan into the same collection
fallbackExtract(elements, headings) ==
  LET shaped == shapeScan(elements, << >>, {})
  IN  headingScan(headings, shaped.searchResults, shaped.seenLinks)

(***************************************************************************)
(* Result Enricher (getFirstGoogleResultLink).  A result page is           *)
(*   [preferred, generic]: for the nodes of the preferred selectors in     *)
(*   visiting order the href of the resolved anchor ("" when the node has  *)
(*   no anchor or the anchor no href), and the href of the first           *)
(*   '#search a[href]' ("" when none).                                     *)
(***************************************************************************)
ResultPage(preferred, generic) == [preferred |-> preferred, generic |-> generic]

HexPairs == <<
  <<<<"%","3","A">>, ":">>, <<<<"%","2","F">>, "/">>, <<<<"%","3","F">>, "?">>,
  <<<<"%","3","D">>, "=">>, <<<<"%","2","6">>, "&">>, <<<<"%","2","0">>, " ">> >>

\* percent-decoding of a query value ('+' is a space)
RECURSIVE percentDecode(_)
percentDecode(s) ==
  IF s = << >> THEN << >>
  ELSE IF Head(s) = "+" THEN <<" ">> \o percentDecode(Tail(s))
  ELSE IF Head(s) = "%" /\ Len(s) >= 3
          /\ \E i \in 1..Len(HexPairs) : HexPairs[i][1] = SubSeq(s, 1, 3)
       THEN LET i == CHOOSE j \in 1..Len(HexPairs) : HexPairs[j][1] = SubSeq(s, 1, 3)
            IN  <<HexPairs[i][2]>> \o percentDecode(SubSeq(s, 4, Len(s)))
  ELSE <<Head(s)>> \o percentDecode(Tail(s))

\* new URL(href).searchParams.get('q') for an href that starts with the
\* redirect prefix: the first parameter is q, up to the next '&' or '#'
redirectTarget(href) ==
  LET rest == SubSeq(href, Len(GOOGLE_REDIRECT_PREFIX) + 1, Len(href))
      stops == {i \in 1..Len(rest) : rest[i] \in {"&", "#"}}
      value == IF stops = {} THEN rest ELSE SubSeq(rest, 1, SetMin(stops) - 1)
  IN  percentDecode(value)

IsRedirect(href) == startsWith(href, GOOGLE_REDIRECT_PREFIX)

\* the node loop of the page evaluation: Some(link) when a node returns, Null
\* when every node is passed over
RECURSIVE preferredLink(_)
preferredLink(nodes) ==
  IF nodes = << >> THEN Null
  ELSE LET href == Head(nodes)
       IN  IF href # Empty /\ ~includes(href, SEARCH_MARK) /\ ~IsRedirect(href)
           THEN Some(href)
           ELSE IF href # Empty /\ IsRedirect(href) THEN Some(redirectTarget(href))
           ELSE preferredLink(Tail(nodes))

\* firstLink of the page evaluation
firstLink(serp) ==
  LET found == preferredLink(serp.preferred)
  IN  IF found # Null THEN found[1] ELSE serp.generic

\* [result.title, result.company].filter(Boolean).join(' ')
searchQueryOf(job) ==
  IF job.title # Empty /\ job.company # Empty THEN job.title \o <<" ">> \o job.company
  ELSE IF job.title # Empty THEN job.title
  ELSE job.company

(***************************************************************************)
(* Tab/View Navigator: the tab list and the choice of the jobs tab.        *)
(***************************************************************************)
W_job == <<"j","o","b">>
T_Jobs == <<"J","o","b","s">>
T_Images == <<"I","m","a","g","e","s">>
U_JobsTab == <<"g",".","c","o","/","s","?","u","d","m","=","8">>

Tab(name, href, ariaLabel) == [name |-> name, href |-> href, ariaLabel |-> ariaLabel]

IsJobsTab(tab) ==
  toLowerCase(tab.name) = W_jobs \/ includes(toLowerCase(tab.name), W_job)

\* availableTabs.find(...): Null or Some(tab)
findJobsTab(tabs) ==
  LET k == FirstIndex(tabs, IsJobsTab)
  IN  IF k = 0 THEN Null ELSE Some(tabs[k])

(***************************************************************************)
(* Inputs of the run: tab lists, content trees, result pages.              *)
(***************************************************************************)
TabLists ==
  { << >>,
    <<Tab(T_Images, U_C, T_Images), Tab(T_Jobs, U_JobsTab, T_Jobs)>>,
    <<Tab(T_Jobs, Empty, T_Jobs)>> }

a_Home == Anchor(T_Home, Empty, U_A, FALSE)
a_Apply == Anchor(T_ApplyNow, Empty, U_B, FALSE)
a_Site == Anchor(T_Site, Empty, U_C, FALSE)
a_Button == Anchor(T_Site, Empty, U_S, TRUE)

cardA == Card(T_Devs, T_Acme, T_Colombo, T_Desc21, <<a_Home, a_Apply>>)
cardADup == Card(<<" ">> \o T_Devs, T_Acme, T_Colombo, T_Acme, <<a_Site>>)
cardShort == Card(T_DevPadded, T_Beta, Empty, T_Short, << >>)
cardBlank == Card(T_Blank, T_Acme, T_Remote, Empty, <<a_Home>>)

NL == <<"\n">>

elA == Element(Some(T_Devs), <<a_Home>>, Null,
               (".vNEEBe" :> <<T_Acme>>) @@ (".Qk80Jf" :> <<T_Colombo>>),
               T_Devs \o NL \o T_Acme \o NL \o T_Colombo \o NL \o T_Desc21)
elADup == Element(Some(T_Devs), <<a_Apply>>, Null,
                  (".vNEEBe" :> <<T_Acme>>) @@ (".Qk80Jf" :> <<T_Colombo>>),
                  T_Devs \o NL \o T_Acme \o NL \o T_Colombo)
elSameLink == Element(Some(T_Devs \o <<" ">> \o T_QA), <<a_Home>>, Null,
                      (".nDc9Hc" :> <<T_Beta>>)
                        @@ (".s" :> <<T_2DaysAgo, T_Short, T_Kandy>>)
                        @@ (".NgUYpe" :> <<T_Desc20>>),
                      T_Devs \o <<" ">> \o T_QA \o NL \o T_Beta \o NL \o T_2DaysAgo
                        \o NL \o T_Short \o NL \o T_Kandy \o NL \o T_Desc20)
elShort == Element(Some(T_DevPadded), << >>, Some(a_Site),
                   (".vNEEBe" :> <<T_Beta>>), T_Dev \o NL \o T_Beta)
elNoTitle == Element(Null, <<a_Button>>, Null, << >>, T_Short)
elBlank == Element(Some(T_Blank), <<a_Button>>, Null, << >>, Empty)

hA == Heading(T_Devs, Some(a_Button),
              Some(Container(T_Devs \o NL \o T_Acme \o NL \o T_Colombo \o NL \o T_Desc21,
                             <<a_Button>>)), << >>)
hSeen == Heading(T_Devs, Some(a_Home), Some(Container(T_Devs \o NL \o T_Acme, <<a_Home>>)), << >>)
hShort == Heading(T_QA, Some(a_Apply), Null, <<a_Apply>>)
hNoLink == Heading(T_Devs, Null, Null, << >>)

Tree(markers, elements, headings) ==
  [markers |-> markers, elements |-> elements, headings |-> headings]

NoTree == Tree(<< >>, << >>, << >>)

\* content trees of the whole run
RunTrees ==
  { NoTree,
    Tree(<<cardA>>, << >>, << >>),
    Tree(<<cardA, cardADup>>, <<elA>>, << >>),
    Tree(<<cardA, cardShort>>, << >>, <<hA>>),
    Tree(<< >>, <<elA, elADup>>, <<hA>>) }

\* content trees of the extraction check: a page for the primary strategy,
\* or a page whose markers give no title and that the fallback scans
PrimaryCards == {cardA, cardADup, cardShort, cardBlank}
ShapeElements == {elA, elADup, elSameLink, elShort, elNoTitle, elBlank}
HeadingElements == {hA, hSeen, hShort, hNoLink}

ExtractTrees ==
  {Tree(m, << >>, << >>) : m \in SeqUpTo(PrimaryCards, MaxMarkers)}
  \cup {Tree(m, e, h) : m \in SeqUpTo({cardBlank}, 1),
                        e \in SeqUpTo(ShapeElements, MaxShapes),
                        h \in SeqUpTo(HeadingElements, MaxHeadings)}

\* result pages of the run, and of the enrichment check
RunPages == {ResultPage(<<U_Internal, U_Plain>>, U_Plain)}

Hrefs == {Empty, U_Plain, U_Internal, U_Wrapped, U_WrappedEmpty}

EnrichPages == {ResultPage(p, g) : p \in SeqUpTo(Hrefs, MaxNodes), g \in Hrefs}

(***************************************************************************)
(* State of one run of openChromeAndSearch.                                *)
(***************************************************************************)
VARIABLES
  pc,                   \* position of the run in openChromeAndSearch
  SUMMARY_ONLY_OUTPUT,  \* the run-mode flag, read once at start
  browser,              \* "none", "open" or "closed"
  navigated,            \* the initial page.goto has resolved
  availableTabs,        \* TabDescriptors of the search view
  jobsTabNavigated,     \* outcome of the Navigator
  directNav,            \* "none", "ok", "error": page.goto(jobsTab.href)
  activation,           \* "none", "clicked", "nomatch", "error": the click path
  moreJobsClicks,       \* 'more jobs' controls activated
  tree,                 \* content tree the extraction evaluations run against
  classBasedResults,    \* output of the primary strategy
  fallbackRan,          \* the fallback evaluation was executed
  results,              \* the final result collection
  offset,               \* summary loop counter
  searchPage,           \* Null, or Some(id) once the secondary page exists
  pagesCreated,         \* secondary pages created by browser.newPage
  lookups,              \* enrichment lookups so far: [query, outcome, page, serp, link]
  summary,              \* "none", "empty" (no jobs found) or "listed"
  printed,              \* the Title/Company/Location entries logged by the summary
  jobCount,             \* title markers counted at drill-down start
  idx,                  \* drill-down loop counter
  iterations,           \* drill-down iterations begun
  clickedAt,            \* 1-based iterations whose activation returned true
  openedJobLinks,       \* indexes pushed to openedJobLinks
  openedJobDetails,     \* the JobDetail sequence
  drillAborted          \* the drill-down try block was left by an exception

vars == <<pc, SUMMARY_ONLY_OUTPUT, browser, navigated, availableTabs, jobsTabNavigated,
          directNav, activation, moreJobsClicks, tree, classBasedResults, fallbackRan,
          results, offset, searchPage, pagesCreated, lookups, summary, printed,
          jobCount, idx,
          iterations,
          clickedAt, openedJobLinks, openedJobDetails, drillAborted>>

bootVars == <<SUMMARY_ONLY_OUTPUT, navigated>>
navVars == <<availableTabs, jobsTabNavigated, directNav, activation, moreJobsClicks>>
extractVars == <<tree, classBasedResults, fallbackRan, results>>
summaryVars == <<offset, searchPage, pagesCreated, lookups, summary, printed>>
drillVars == <<jobCount, idx, iterations, clickedAt, openedJobLinks, openedJobDetails,
               drillAborted>>

\* the strategy chain has not run yet
NotExtracted ==
  /\ classBasedResults = << >>
  /\ fallbackRan = FALSE
  /\ results = << >>

\* the summary has not run yet
NotSummarised ==
  /\ offset = 0
  /\ searchPage = Null
  /\ pagesCreated = 0
  /\ lookups = << >>
  /\ summary = "none"
  /\ printed = << >>

\* the drill-down has not run yet
NotDrilled ==
  /\ jobCount = 0
  /\ idx = 0
  /\ iterations = 0
  /\ clickedAt = {}
  /\ openedJobLinks = << >>
  /\ openedJobDetails = << >>
  /\ drillAborted = FALSE

Init ==
  /\ pc = "launch"
  /\ SUMMARY_ONLY_OUTPUT \in BOOLEAN
  /\ tree = NoTree
  /\ browser = "none"
  /\ navigated = FALSE
  /\ availableTabs = << >>
  /\ jobsTabNavigated = FALSE
  /\ directNav = "none"
  /\ activation = "none"
  /\ moreJobsClicks = 0
  /\ NotExtracted
  /\ NotSummarised
  /\ NotDrilled

\* an unguarded await rejects: the rejection leaves openChromeAndSearch
Throw == pc' = "failed"

(***************************************************************************)
(* Bootstrap and search submission (lines 77-332).                         *)
(***************************************************************************)
\* getChromePath, puppeteer.launch
Launch ==
  /\ pc = "launch"
  /\ \/ /\ pc' = "done"                       \* Chrome not found: return
        /\ UNCHANGED browser
     \/ /\ Throw                              \* launch rejects
        /\ UNCHANGED browser
     \/ /\ pc' = "newPage"
        /\ browser' = "open"
  /\ UNCHANGED <<bootVars, navVars, extractVars, summaryVars, drillVars>>

\* browser.newPage, configurePage
NewPage ==
  /\ pc = "newPage"
  /\ (pc' = "goto" \/ Throw)
  /\ UNCHANGED <<browser, bootVars, navVars, extractVars, summaryVars, drillVars>>

\* page.goto('https://www.google.com')
Goto ==
  /\ pc = "goto"
  /\ \/ /\ pc' = "consent"
        /\ navigated' = TRUE
     \/ /\ Throw
        /\ UNCHANGED navigated
  /\ UNCHANGED <<browser, SUMMARY_ONLY_OUTPUT, navVars, extractVars, summaryVars, drillVars>>

\* the cookie dialog: try { waitForSelector, click } catch {}
Consent ==
  /\ pc = "consent"
  /\ pc' = "searchBox"
  /\ UNCHANGED <<browser, bootVars, navVars, extractVars, summaryVars, drillVars>>

\* waitForSelector(search box), page.type, keyboard.press('Enter')
SearchBox ==
  /\ pc = "searchBox"
  /\ (pc' = "waitResults" \/ Throw)
  /\ UNCHANGED <<browser, bootVars, navVars, extractVars, summaryVars, drillVars>>

\* waitForSelector('#search', { timeout: 10000 })
WaitResults ==
  /\ pc = "waitResults"
  /\ (pc' = "tabs" \/ Throw)
  /\ UNCHANGED <<browser, bootVars, navVars, extractVars, summaryVars, drillVars>>

(***************************************************************************)
(* Tab listing, Navigator and Pagination Expander (lines 334-573).         *)
(***************************************************************************)
\* availableTabs = await page.evaluate(...)
ListTabs ==
  /\ pc = "tabs"
  /\ \/ /\ pc' = "navigator"
        /\ availableTabs' \in TabLists
     \/ /\ Throw
        /\ UNCHANGED availableTabs
  /\ UNCHANGED <<browser, bootVars, jobsTabNavigated, directNav, activation, moreJobsClicks,
                 extractVars, summaryVars, drillVars>>

\* the click path: page.evaluate(click a matching control), try/catch around it
ClickJobs ==
  \/ /\ activation' = "clicked"
     /\ jobsTabNavigated' = TRUE
  \/ /\ activation' = "nomatch"
     /\ jobsTabNavigated' = FALSE
  \/ /\ activation' = "error"
     /\ jobsTabNavigated' = FALSE

\* if (jobsTab && jobsTab.href)
MutPrefersDirectAnyTab(jobsTab) == jobsTab # Null

prefersDirect(jobsTab) == jobsTab # Null /\ jobsTab[1].href # Empty

\* where the run stands after the Navigator: each of its evaluations and
\* navigations sits in a try block whose catch only logs
MutNavigatorRethrows(direct, clicking) ==
  IF clicking = "error" THEN "failed" ELSE "paginate"

afterNavigator(direct, clicking) == "paginate"

\* lines 418-521
NavigateJobs ==
  /\ pc = "navigator"
  /\ LET jobsTab == findJobsTab(availableTabs)
     IN  IF prefersDirect(jobsTab)
         THEN \/ /\ directNav' = "ok"
                 /\ jobsTabNavigated' = TRUE
                 /\ UNCHANGED activation
              \/ /\ directNav' = "error"
                 /\ ClickJobs
         ELSE /\ UNCHANGED directNav
              /\ ClickJobs
  /\ pc' = afterNavigator(directNav', activation')
  /\ UNCHANGED <<browser, bootVars, availableTabs, moreJobsClicks, extractVars, summaryVars,
                 drillVars>>

\* element.click(); return true;  (the scan ends at the first match)
MutClicksTwoMatches(clicks) == clicks + 2

clickFirstMatch(clicks) == clicks + 1

\* lines 523-573: one scan, at most one click, everything inside try/catch
Paginate ==
  /\ pc = "paginate"
  /\ \/ moreJobsClicks' = clickFirstMatch(moreJobsClicks)   \* a control matched
     \/ UNCHANGED moreJobsClicks                 \* no match, or the scan threw
  /\ pc' = "dump"
  /\ UNCHANGED <<browser, bootVars, availableTabs, jobsTabNavigated, directNav, activation,
                 extractVars, summaryVars, drillVars>>

(***************************************************************************)
(* Marker dump and strategy chain (lines 575-901).                         *)
(***************************************************************************)
\* tNxQIbTexts = await page.evaluate(...): the page as the extraction finds it
DumpMarkers ==
  /\ pc = "dump"
  /\ \/ /\ pc' = "primary"
        /\ tree' \in RunTrees
     \/ /\ Throw
        /\ UNCHANGED tree
  /\ UNCHANGED <<browser, bootVars, navVars, classBasedResults, fallbackRan, results,
                 summaryVars, drillVars>>

\* classBasedResults = await page.evaluate(...); let results = classBasedResults
PrimaryEval ==
  /\ pc = "primary"
  /\ \/ /\ pc' = "chain"
        /\ classBasedResults' = classBasedExtract(tree.markers)
        /\ results' = classBasedExtract(tree.markers)
     \/ /\ Throw
        /\ UNCHANGED <<classBasedResults, results>>
  /\ UNCHANGED <<browser, bootVars, navVars, tree, fallbackRan, summaryVars, drillVars>>

\* if (!results.length)
MutChainAlwaysFallback(found) == TRUE

chainNeedsFallback(found) == Len(found) = 0

\* the value of results after the chain, fallbackOutput being the fallback's return
chainResult(found, fallbackOutput) ==
  IF chainNeedsFallback(found) THEN fallbackOutput ELSE found

\* lines 666-901
ChainEval ==
  /\ pc = "chain"
  /\ IF chainNeedsFallback(results)
     THEN \/ /\ pc' = "summary"
             /\ fallbackRan' = TRUE
             /\ results' = chainResult(results, fallbackExtract(tree.elements, tree.headings))
          \/ /\ Throw
             /\ fallbackRan' = TRUE
             /\ UNCHANGED results
     ELSE /\ pc' = "summary"
          /\ UNCHANGED <<fallbackRan, results>>
  /\ UNCHANGED <<browser, bootVars, navVars, tree, classBasedResults, summaryVars, drillVars>>

(***************************************************************************)
(* Summary with enrichment (lines 903-927) and mode branch (929-933).      *)
(***************************************************************************)
SUMMARY_COUNT == 5

\* results.slice(-5)
MutJobsToShowAll(found) == found

jobsToShow(found) ==
  IF Len(found) <= SUMMARY_COUNT THEN found
  ELSE SubSeq(found, Len(found) - SUMMARY_COUNT + 1, Len(found))

NoPage == ResultPage(<< >>, Empty)

\* the primary page (const page = await browser.newPage()) is page 0; the
\* secondary pages are numbered from 1 in the order of their creation
PRIMARY_PAGE == 0

Lookup(query, outcome, target, serp, link) ==
  [query |-> query, outcome |-> outcome, page |-> target, serp |-> serp, link |-> link]

\* getSearchPage: if (!searchPage)
MutAlwaysNewPage(current) == TRUE

needsNewPage(current) == current = Null

\* catch (err) { ...; return ''; }
MutCaughtLinkEchoesQuery(query) == query

caughtLink(query) == Empty

\* getFirstGoogleResultLink(query): every await sits inside one try/catch that
\* returns ''.  getSearchPage creates the secondary page on first use only.
Enrich(query, pages) ==
  LET trimmedQuery == trim(query)
      created == Some(pagesCreated + 1)
      searchTab == IF needsNewPage(searchPage) THEN created ELSE searchPage
  IN  IF trimmedQuery = Empty
      THEN /\ lookups' = Append(lookups, Lookup(trimmedQuery, "blank", Null, NoPage, Empty))
           /\ UNCHANGED <<searchPage, pagesCreated>>
      ELSE \/ /\ needsNewPage(searchPage)         \* browser.newPage rejects
              /\ UNCHANGED <<searchPage, pagesCreated>>
              /\ lookups' = Append(lookups, Lookup(trimmedQuery, "newPageThrows", Null, NoPage,
                                                   caughtLink(trimmedQuery)))
           \/ /\ needsNewPage(searchPage)         \* configurePage rejects
              /\ searchPage' = created
              /\ pagesCreated' = pagesCreated + 1
              /\ lookups' = Append(lookups, Lookup(trimmedQuery, "configureThrows", Null, NoPage,
                                                   caughtLink(trimmedQuery)))
           \/ /\ searchPage' = searchTab
              /\ pagesCreated' = IF needsNewPage(searchPage) THEN pagesCreated + 1
                                 ELSE pagesCreated
              /\ \/ lookups' = Append(lookups,      \* searchTab.goto or evaluate rejects
                                      Lookup(trimmedQuery, "throws", searchTab, NoPage,
                                             caughtLink(trimmedQuery)))
                 \/ \E serp \in pages :
                      lookups' = Append(lookups,
                                        Lookup(trimmedQuery, "ok", searchTab, serp,
                                               firstLink(serp)))

\* if (results.length === 0) ... 'No jobs found'
SummaryNone ==
  /\ pc = "summary"
  /\ Len(results) = 0
  /\ summary' = "empty"
  /\ pc' = "mode"
  /\ UNCHANGED <<browser, bootVars, navVars, extractVars, offset, searchPage, pagesCreated,
                 lookups, printed, drillVars>>

T_NA == <<"N", "/", "A">>

\* result.title || 'N/A'
orNA(text) == IF text = Empty THEN T_NA ELSE text

\* the three lines logged for a record: Title, Company, Location
summaryEntry(result) ==
  [title |-> orNA(result.title), company |-> orNA(result.company),
   location |-> orNA(result.location)]

\* const result = jobsToShow[offset]
MutSummaryTurnBackwards(shown, at) == shown[Len(shown) - at]

summaryTurn(shown, at) == shown[at + 1]

\* for (let offset = 0; offset < jobsToShow.length; offset++): where the run
\* stands when `done` of the `count` turns have ended
MutLeavesAfterFirstTurn(done, count) == "mode"

afterSummaryTurn(done, count) == IF done < count THEN "summary" ELSE "mode"

\* one turn of the loop over jobsToShow
SummaryStep(pages) ==
  /\ pc = "summary"
  /\ Len(results) > 0
  /\ offset < Len(jobsToShow(results))
  /\ LET result == summaryTurn(jobsToShow(results), offset)
     IN  /\ printed' = Append(printed, summaryEntry(result))
         /\ IF result.title # Empty \/ result.company # Empty
            THEN Enrich(searchQueryOf(result), pages)
            ELSE UNCHANGED <<searchPage, pagesCreated, lookups>>
  /\ offset' = offset + 1
  /\ summary' = "listed"
  /\ pc' = afterSummaryTurn(offset + 1, Len(jobsToShow(results)))
  /\ UNCHANGED <<browser, bootVars, navVars, extractVars, drillVars>>

\* if (SUMMARY_ONLY_OUTPUT)
MutNeverStops(flag) == FALSE

stopsAfterSummary(flag) == flag

ModeBranch ==
  /\ pc = "mode"
  /\ IF stopsAfterSummary(SUMMARY_ONLY_OUTPUT)
     THEN /\ browser' = "closed"
          /\ pc' = "done"
     ELSE /\ pc' = "drillCount"
          /\ UNCHANGED browser
  /\ UNCHANGED <<bootVars, navVars, extractVars, summaryVars, drillVars>>

(***************************************************************************)
(* Detail drill-down (lines 935-1107): one try block around the count and  *)
(* the loop; its catch ends the drill-down.                                *)
(***************************************************************************)
JobDetail(index, source, listing) ==
  [index |-> index, source |-> source, listing |-> listing]

\* index: idx + 1
MutDetailIndexByLength(i, details) == Len(details) + 1

detailIndex(i, details) == i + 1

\* for (let idx = 0; idx < jobCount; idx++)
MutLoopStopsOneEarly(i, n) == IF i + 1 < n THEN "activate" ELSE "report"

loopAt(i, n) == IF i < n THEN "activate" ELSE "report"

\* where the snapshot takes its fields from, and the listing that place shows
snapshotSource(panel, selected) ==
  IF panel THEN "detailPanel" ELSE IF selected THEN "selectedCard" ELSE "firstMarker"

snapshotListing(panel, selected, i) ==
  IF snapshotSource(panel, selected) = "firstMarker" THEN 1 ELSE i + 1

\* jobCount = await page.$$eval('.tNxQIb.PUpOsf', nodes => nodes.length):
\* the markers on the page now, which need not be those the extraction saw
DrillCount ==
  /\ pc = "drillCount"
  /\ \/ \E n \in 0..MaxJobCount :
          /\ jobCount' = n
          /\ pc' = loopAt(0, n)
          /\ UNCHANGED drillAborted
     \/ /\ drillAborted' = TRUE
        /\ pc' = "report"
        /\ UNCHANGED jobCount
  /\ UNCHANGED <<browser, bootVars, navVars, extractVars, summaryVars, idx, iterations,
                 clickedAt, openedJobLinks, openedJobDetails>>

\* idx during the capture: the loop advances it only when its body has ended
MutAdvancesBeforeCapture(i) == i + 1

heldIndex(i) == i

\* clicked = await page.evaluate(index => ..., idx)
DrillActivate ==
  /\ pc = "activate"
  /\ iterations' = iterations + 1
  /\ \/ /\ clickedAt' = clickedAt \cup {idx + 1}     \* nodes[index] clicked
        /\ pc' = "capture"
        /\ idx' = heldIndex(idx)
        /\ UNCHANGED drillAborted
     \/ /\ idx' = idx + 1                            \* nodes[index] is undefined
        /\ pc' = loopAt(idx + 1, jobCount)
        /\ UNCHANGED <<clickedAt, drillAborted>>
     \/ /\ drillAborted' = TRUE                      \* the evaluation rejects
        /\ pc' = "report"
        /\ UNCHANGED <<idx, clickedAt>>
  /\ UNCHANGED <<browser, bootVars, navVars, extractVars, summaryVars, jobCount,
                 openedJobLinks, openedJobDetails>>

\* jobLink, openedJobLinks.push, detailSnapshot, anchorDetails, openedJobDetails.push
DrillCapture ==
  /\ pc = "capture"
  /\ \/ /\ drillAborted' = TRUE                      \* the jobLink evaluation rejects
        /\ pc' = "report"
        /\ UNCHANGED <<idx, openedJobLinks, openedJobDetails>>
     \/ /\ drillAborted' = TRUE                      \* a later evaluation rejects
        /\ pc' = "report"
        /\ openedJobLinks' = Append(openedJobLinks, idx + 1)
        /\ UNCHANGED <<idx, openedJobDetails>>
     \/ \E panel \in BOOLEAN, selected \in BOOLEAN :
          /\ openedJobLinks' = Append(openedJobLinks, idx + 1)
          /\ openedJobDetails' =
               Append(openedJobDetails,
                      JobDetail(detailIndex(idx, openedJobDetails),
                                snapshotSource(panel, selected),
                                snapshotListing(panel, selected, idx)))
          /\ idx' = idx + 1
          /\ pc' = loopAt(idx + 1, jobCount)
          /\ UNCHANGED drillAborted
  /\ UNCHANGED <<browser, bootVars, navVars, extractVars, summaryVars, jobCount, iterations,
                 clickedAt>>

(***************************************************************************)
(* Report and end of the run (lines 1109-1242).                            *)
(***************************************************************************)
\* the printed lists and the guarded allJobTexts evaluation
Report ==
  /\ pc = "report"
  /\ pc' = "final"
  /\ UNCHANGED <<browser, bootVars, navVars, extractVars, summaryVars, drillVars>>

\* page.waitForTimeout(60000); browser.close()
Final ==
  /\ pc = "final"
  /\ browser' = "closed"
  /\ pc' = "done"
  /\ UNCHANGED <<bootVars, navVars, extractVars, summaryVars, drillVars>>

Next ==
  \/ Launch \/ NewPage \/ Goto \/ Consent \/ SearchBox \/ WaitResults
  \/ ListTabs \/ NavigateJobs \/ Paginate
  \/ DumpMarkers \/ PrimaryEval \/ ChainEval
  \/ SummaryNone \/ SummaryStep(RunPages) \/ ModeBranch
  \/ DrillCount \/ DrillActivate \/ DrillCapture
  \/ Report \/ Final

Spec == Init /\ [][Next]_vars

(***************************************************************************)
(* Specifications of single stages.  Each starts in a state of the run     *)
(* in which the search view was reached with no tab found, no jobs control *)
(* matched and no 'more jobs' control clicked, and draws the content the   *)
(* stage reads from a wider set than the whole run does.                   *)
(***************************************************************************)
SearchViewReached ==
  /\ browser = "open"
  /\ navigated = TRUE
  /\ availableTabs = << >>
  /\ jobsTabNavigated = FALSE
  /\ directNav = "none"
  /\ activation = "nomatch"
  /\ moreJobsClicks = 0

\* the strategy chain on every content tree of ExtractTrees
InitExtract ==
  /\ pc = "primary"
  /\ SUMMARY_ONLY_OUTPUT = TRUE
  /\ tree \in ExtractTrees
  /\ SearchViewReached
  /\ NotExtracted
  /\ NotSummarised
  /\ NotDrilled

NextExtract == PrimaryEval \/ ChainEval

SpecExtract == InitExtract /\ [][NextExtract]_vars

\* the primary strategy on one title marker whose jobCard holds any anchors
AnchorTexts == {T_Home, T_ApplyNow, T_LearnMore}
AnchorLabels == {Empty, T_LearnMore, T_ViewJob}
AnchorHrefs == {Empty, U_A, U_B}

LinkAnchors ==
  {Anchor(t, l, h, s) : t \in AnchorTexts, l \in AnchorLabels, h \in AnchorHrefs,
                        s \in BOOLEAN}

LinkTrees ==
  {Tree(<<Card(T_Devs, T_Acme, Empty, Empty, anchors)>>, << >>, << >>) :
     anchors \in SeqUpTo(LinkAnchors, MaxAnchors)}

InitLink ==
  /\ pc = "primary"
  /\ SUMMARY_ONLY_OUTPUT = TRUE
  /\ tree \in LinkTrees
  /\ SearchViewReached
  /\ NotExtracted
  /\ NotSummarised
  /\ NotDrilled

NextLink == PrimaryEval

SpecLink == InitLink /\ [][NextLink]_vars

\* the summary of one record, its lookup reading any page of EnrichPages
InitEnrich ==
  /\ pc = "summary"
  /\ SUMMARY_ONLY_OUTPUT = TRUE
  /\ tree = Tree(<<cardA>>, << >>, << >>)
  /\ SearchViewReached
  /\ classBasedResults = classBasedExtract(<<cardA>>)
  /\ fallbackRan = FALSE
  /\ results = classBasedExtract(<<cardA>>)
  /\ NotSummarised
  /\ NotDrilled

NextEnrich == SummaryStep(EnrichPages)

SpecEnrich == InitEnrich /\ [][NextEnrich]_vars

\* tab listing, Navigator, pagination and marker dump, from the state in which
\* the '#search' wait has resolved
InitNavigate ==
  /\ pc = "tabs"
  /\ SUMMARY_ONLY_OUTPUT \in BOOLEAN
  /\ tree = NoTree
  /\ browser = "open"
  /\ navigated = TRUE
  /\ availableTabs = << >>
  /\ jobsTabNavigated = FALSE
  /\ directNav = "none"
  /\ activation = "none"
  /\ moreJobsClicks = 0
  /\ NotExtracted
  /\ NotSummarised
  /\ NotDrilled

NextNavigate == ListTabs \/ NavigateJobs \/ Paginate \/ DumpMarkers

SpecNavigate == InitNavigate /\ [][NextNavigate]_vars

\* the summary of a collection of up to MaxRecords records, all different; the
\* empty collection is what the chain returns when both strategies find nothing
summaryTitles == <<T_Devs, T_QA, T_Dev>>
summaryCompanies == <<T_Acme, T_Beta, Empty>>

summaryCard(i) ==
  Card(summaryTitles[(i % 3) + 1], summaryCompanies[((i \div 3) % 3) + 1], Empty, Empty, << >>)

summaryCards(n) == [i \in 1..n |-> summaryCard(i)]

InitSummary ==
  /\ pc = "summary"
  /\ SUMMARY_ONLY_OUTPUT = TRUE
  /\ \E n \in 0..MaxRecords :
        /\ tree = Tree(summaryCards(n), << >>, << >>)
        /\ classBasedResults = classBasedExtract(summaryCards(n))
        /\ results = chainResult(classBasedExtract(summaryCards(n)),
                                fallbackExtract(<< >>, << >>))
        /\ fallbackRan = chainNeedsFallback(classBasedExtract(summaryCards(n)))
  /\ SearchViewReached
  /\ NotSummarised
  /\ NotDrilled

NextSummary == SummaryNone \/ SummaryStep(RunPages)

SpecSummary == InitSummary /\ [][NextSummary]_vars

(***************************************************************************)
(* Properties.                                                             *)
(***************************************************************************)
\* identity key of a record: title, company and location
IdentityKey(job) == <<job.title, job.company, job.location>>

\* the strategy chain has returned and the run has not been rejected
ChainDone ==
  \/ pc \in {"summary", "mode", "drillCount", "activate", "capture", "report", "final"}
  \/ (pc = "done" /\ browser = "closed")

\* C1 (as claimed; violated by the fallback strategy, which deduplicates by
\* link): no two records of the result collection share the identity key
\* formed from title, company and location.
C1_NoSharedIdentityKey ==
  \A i, j \in 1..Len(results) :
     i # j => IdentityKey(results[i]) # IdentityKey(results[j])

\* C2 (as claimed; violated by the primary strategy): no record of the result
\* collection has a title of length 3 or less, whichever strategy produced it.
C2_NoShortTitleAnyStrategy ==
  \A i \in 1..Len(results) : Len(results[i].title) > 3

\* C2 (amended): when the fallback strategy produced the result collection
\* (shape scan and heading scan), no record has a title of length 3 or less.
C2_FallbackDropsShortTitles ==
  fallbackRan => \A i \in 1..Len(results) : Len(results[i].title) > 3

\* C2 witness: the fallback produced records from a page holding a candidate
\* with a link and a title of one to three characters.
C2_Witness ==
  /\ pc = "summary"
  /\ fallbackRan
  /\ Len(results) > 0
  /\ \E k \in 1..Len(tree.elements) :
        /\ tree.elements[k].jobTitle # Null
        /\ shapeLinkElement(tree.elements[k]) # Null
        /\ shapeLinkElement(tree.elements[k])[1].href # Empty
        /\ Len(trim(tree.elements[k].jobTitle[1])) \in 1..3

\* C3: every record of the primary output and of the final result collection
\* has a non-empty title, at every point of the run.
C3_TitlesNonEmpty ==
  /\ \A i \in 1..Len(classBasedResults) : classBasedResults[i].title # Empty
  /\ \A i \in 1..Len(results) : results[i].title # Empty

\* C3 witness: the primary strategy produced records from a page on which one
\* title marker yields an empty title.
C3_Witness ==
  /\ pc = "summary"
  /\ ~fallbackRan
  /\ Len(results) > 0
  /\ \E k \in 1..Len(tree.markers) : trim(tree.markers[k].title) = Empty

\* C4: the fallback strategy is executed only if the primary strategy returned
\* zero records, and always then; the result collection is the primary output
\* when that is non-empty and otherwise the fallback output, unchanged.
C4_ChainShortCircuits ==
  /\ fallbackRan => Len(classBasedResults) = 0
  /\ ChainDone =>
       /\ fallbackRan <=> Len(classBasedResults) = 0
       /\ results = IF Len(classBasedResults) > 0 THEN classBasedResults
                    ELSE fallbackExtract(tree.elements, tree.headings)

\* C4 witness: the primary strategy returned nothing and the fallback output,
\* which is not empty, is the result collection.
C4_Witness ==
  /\ ChainDone
  /\ fallbackRan
  /\ Len(classBasedResults) = 0
  /\ Len(results) > 0

\* the anchors of the jobCard of the only title marker (SpecLink)
CardAnchors == tree.markers[1].anchors

HrefAt(anchors) == {i \in 1..Len(anchors) : anchors[i].href # Empty}
SpecialAt(anchors) == {i \in 1..Len(anchors) : anchors[i].special}

\* vocabulary match as claimed: text or label contains any of the three words
ClaimedMatch(a) ==
  \E w \in {W_apply, W_viewjob, W_learnmore} :
     includes(toLowerCase(trim(a.text)), w) \/ includes(toLowerCase(a.aria), w)

\* vocabulary match as implemented: 'learn more' is looked for in the text only
AmendedMatch(a) ==
  \/ \E w \in {W_apply, W_viewjob, W_learnmore} : includes(toLowerCase(trim(a.text)), w)
  \/ \E w \in {W_apply, W_viewjob} : includes(toLowerCase(a.aria), w)

ClaimedLink(anchors) ==
  LET hs == HrefAt(anchors)
      ms == {i \in hs : ClaimedMatch(anchors[i])}
  IN  IF ms # {} THEN anchors[SetMin(ms)].href
      ELSE IF hs # {} THEN anchors[SetMin(hs)].href ELSE Empty

AmendedLink(anchors) ==
  LET hs == HrefAt(anchors)
      sp == SpecialAt(anchors)
      ms == {i \in hs : AmendedMatch(anchors[i])}
  IN  IF sp # {} /\ anchors[SetMin(sp)].href # Empty THEN anchors[SetMin(sp)].href
      ELSE IF ms # {} THEN anchors[SetMin(ms)].href
      ELSE IF hs # {} THEN anchors[SetMin(hs)].href ELSE Empty

\* C5 (as claimed; violated by the apply-button anchor, which is returned
\* first, and by a label containing 'learn more', which is not matched): link
\* extraction returns the first anchor whose text or label contains 'apply',
\* 'view job' or 'learn more', and the first anchor only when none matches.
C5_FirstPreferredAnchor ==
  pc = "chain" => results[1].applyLink = ClaimedLink(CardAnchors)

\* C5 (amended): link extraction returns the href of the first apply-button
\* anchor when it has one; otherwise the first anchor with an href whose text
\* contains 'apply', 'view job' or 'learn more' or whose label contains 'apply'
\* or 'view job'; otherwise the first anchor with an href.  The record keeps
\* this as applyLink; its link is the apply-button anchor or else the first
\* anchor with an href.
C5_ApplyLinkAmended ==
  pc = "chain" =>
    LET hs == HrefAt(CardAnchors)
        sp == SpecialAt(CardAnchors)
    IN  /\ results[1].applyLink = AmendedLink(CardAnchors)
        /\ results[1].link =
             IF sp # {} /\ CardAnchors[SetMin(sp)].href # Empty
             THEN CardAnchors[SetMin(sp)].href
             ELSE IF sp = {} /\ hs # {} THEN CardAnchors[SetMin(hs)].href
             ELSE AmendedLink(CardAnchors)

\* C5 witness: for the anchors {Home -> A, Apply Now -> B} the record has
\* applyLink B and link A.
C5_Witness ==
  /\ pc = "chain"
  /\ CardAnchors = <<a_Home, a_Apply>>
  /\ results[1].applyLink = U_B
  /\ results[1].link = U_A

\* C6 (as claimed; violated on the generic last-resort anchor): no enrichment
\* lookup returns a redirect-wrapper URL.
C6_NeverReturnsWrapper ==
  \A k \in 1..Len(lookups) : ~IsRedirect(lookups[k].link)

\* C7: the JobDetail sequence holds, in increasing order of index, one entry
\* for every iteration whose activation succeeded and whose capture finished,
\* the index being the 1-based position of that iteration; an iteration that
\* failed to activate has no entry and shifts no later index.
C7_DetailIndexIsIteration ==
  /\ \A k \in 1..Len(openedJobDetails) : openedJobDetails[k].index \in clickedAt
  /\ \A k \in 1..Len(openedJobDetails) :
        \A m \in 1..Len(openedJobDetails) :
           k < m => openedJobDetails[k].index < openedJobDetails[m].index
  /\ \A i \in clickedAt :
        i <= idx => \E k \in 1..Len(openedJobDetails) : openedJobDetails[k].index = i
  /\ \A i \in 1..idx :
        i \notin clickedAt =>
          \A k \in 1..Len(openedJobDetails) : openedJobDetails[k].index # i

\* C7 witness: an iteration failed to activate and a later one was captured,
\* so that an entry's index is larger than its place in the sequence.
C7_Witness ==
  \E k \in 1..Len(openedJobDetails) :
     /\ openedJobDetails[k].index > k
     /\ \E i \in 1..(openedJobDetails[k].index - 1) : i \notin clickedAt

\* C8: in summary-only mode no drill-down step is ever taken, no listing is
\* activated and no JobDetail captured, and once the summary is produced the
\* run ends with the browser closed.
C8_SummaryOnlyStops ==
  SUMMARY_ONLY_OUTPUT =>
    /\ iterations = 0
    /\ clickedAt = {}
    /\ openedJobLinks = << >>
    /\ openedJobDetails = << >>
    /\ pc \notin {"drillCount", "activate", "capture", "report", "final"}
    /\ (summary # "none" /\ pc \notin {"summary", "mode"}) =>
          (pc = "done" /\ browser = "closed")

\* C8 witness: a summary-only run that listed records has ended, browser closed.
C8_Witness ==
  /\ SUMMARY_ONLY_OUTPUT
  /\ summary = "listed"
  /\ Len(lookups) > 0
  /\ pc = "done"
  /\ browser = "closed"

\* C9 (as claimed; violated when markers are duplicates of one another and
\* when the records came from the fallback): in full-detail mode, with the
\* page showing the markers the extraction saw and no step failing, the
\* drill-down performs as many iterations as there are deduplicated records.
C9_IterationsEqualRecords ==
  (/\ ~SUMMARY_ONLY_OUTPUT
   /\ pc \in {"report", "final"}
   /\ ~drillAborted
   /\ jobCount = Len(tree.markers))
  => iterations = Len(results)

\* C9 (amended): the drill-down performs one iteration for every title marker
\* counted on the page when it starts, never more, and fewer only when an
\* evaluation throws and ends the drill-down; the number of deduplicated
\* records does not enter.
C9_IterationsEqualMarkers ==
  /\ iterations <= jobCount
  /\ (pc \in {"report", "final"} /\ ~drillAborted) => iterations = jobCount

\* C9 witness: the drill-down ran over all counted markers, which are the
\* markers the extraction saw, and their number is not the number of records.
C9_Witness ==
  /\ pc = "report"
  /\ ~drillAborted
  /\ jobCount > 0
  /\ jobCount = Len(tree.markers)
  /\ iterations = jobCount
  /\ jobCount # Len(results)

\* C10 (as claimed; violated by the unguarded waits and evaluations): once the
\* initial navigation has succeeded the run is never rejected.
C10_NoFailureAfterNavigation ==
  navigated => pc # "failed"

\* C11: across the lookups of a run at most one secondary page is created,
\* every lookup that navigates does so on that one page, which is the page
\* getSearchPage holds, and no lookup navigates the primary page.
C11_OneSecondaryPage ==
  /\ pagesCreated <= 1
  /\ \A k \in 1..Len(lookups) :
        lookups[k].page # Null =>
          /\ lookups[k].page = searchPage
          /\ lookups[k].page # Some(PRIMARY_PAGE)
  /\ \A j, k \in 1..Len(lookups) :
        (lookups[j].page # Null /\ lookups[k].page # Null) =>
          lookups[j].page = lookups[k].page

\* C11 witness: three lookups have navigated, all on the one page created.
C11_Witness ==
  /\ pagesCreated = 1
  /\ Len(lookups) >= 3
  /\ \A k \in 1..3 : lookups[k].page = Some(1)

\* C12: a lookup in which anything fails returns the empty link and raises
\* nothing: the summary goes on, and every record listed so far has had its
\* lookup, those after a failed one included.
C12_LookupFailsSoft ==
  /\ \A k \in 1..Len(lookups) : lookups[k].outcome # "ok" => lookups[k].link = Empty
  /\ pc \in {"summary", "mode"}
  /\ Len(lookups) = offset
  /\ pc = "mode" => offset = Len(jobsToShow(results))

\* C12 witness: the summary has ended, one lookup failed with the empty link
\* and the lookup of the next record ran and returned a link.
C12_Witness ==
  /\ pc = "mode"
  /\ \E k \in 1..(Len(lookups) - 1) :
        /\ lookups[k].outcome \in {"newPageThrows", "configureThrows", "throws"}
        /\ lookups[k].link = Empty
        /\ lookups[k + 1].outcome = "ok"
        /\ lookups[k + 1].link # Empty

\* the query text as claimed: title + ' ' + company, trimmed
ClaimedQuery(job) == trim(job.title \o <<" ">> \o job.company)

C14_NavigatorNeverThrows ==
  [][pc = "navigator" => (pc' = "paginate" /\ jobsTabNavigated' \in BOOLEAN)]_vars

\* C14 witness: direct navigation and the activation after it both failed, the
\* outcome is failure and the markers of the generic view have been read.
C14_Witness ==
  /\ pc = "primary"
  /\ directNav = "error"
  /\ activation = "error"
  /\ jobsTabNavigated = FALSE

\* C15: at most one 'more jobs' control is activated in a run, and the
\* pagination step always hands over to the extraction, with or without a
\* match and also when its scan fails.
C15_PaginationAtMostOnce ==
  /\ [](moreJobsClicks <= 1)
  /\ [][pc = "paginate" => pc' = "dump"]_vars

\* C15 witness: one control was activated and the extraction has started.
C15_Witness ==
  /\ pc = "primary"
  /\ moreJobsClicks = 1

\* the Navigator has ended
NavigatorDone ==
  \/ pc \in {"paginate", "dump", "primary", "chain", "summary", "mode", "drillCount",
             "activate", "capture", "report", "final"}
  \/ (pc = "done" /\ browser = "closed")

\* a jobs TabDescriptor with a non-empty href was discovered
JobsHrefDiscovered ==
  \E k \in 1..Len(availableTabs) :
     /\ IsJobsTab(availableTabs[k])
     /\ \A j \in 1..(k - 1) : ~IsJobsTab(availableTabs[j])
     /\ availableTabs[k].href # Empty

C16_TimedOutWaitProceeds ==
  [][(pc \in {"consent", "waitResults", "paginate"}) => (pc' # "failed")]_vars

\* iteration i has its JobDetail, its outbound link
HasDetail(i) == \E k \in 1..Len(openedJobDetails) : openedJobDetails[k].index = i
HasLink(i) == \E k \in 1..Len(openedJobLinks) : openedJobLinks[k] = i

\* C18: drill-down iterations never overlap: every activated listing has its
\* outbound link and its JobDetail, except the one listing whose capture is
\* under way or was cut short by an exception, and no later listing is
\* activated meanwhile.
C18_IterationsNeverOverlap ==
  /\ \A i \in clickedAt :
        \/ HasDetail(i) /\ HasLink(i)
        \/ (pc = "capture" \/ drillAborted) /\ i = idx + 1
  /\ \A i \in clickedAt : i <= idx + 1
  /\ pc = "activate" => \A i \in clickedAt : i <= idx /\ HasDetail(i) /\ HasLink(i)

\* C18 witness: the second listing is activated and being captured, the first
\* one having been activated and captured before.
C18_Witness ==
  /\ pc = "capture"
  /\ idx = 1
  /\ clickedAt = {1, 2}
  /\ HasDetail(1)
  /\ ~HasDetail(2)

\* C19 (as claimed; violated when neither a detail pane nor a selected card is
\* on the page after the activation): the JobDetail with index i takes its
\* fields from the listing activated at iteration i.
C19_DetailDescribesItsListing ==
  \A k \in 1..Len(openedJobDetails) :
     openedJobDetails[k].listing = openedJobDetails[k].index

\* C20 (as claimed; violated when an evaluation of the capture throws): when
\* the drill-down has ended, every iteration whose activation succeeded has
\* its JobDetail, and every counted marker has had its iteration.
C20_CaptureFailureKeepsEntry ==
  pc \in {"report", "final"} =>
    /\ \A i \in clickedAt : HasDetail(i)
    /\ clickedAt # {} => iterations = jobCount

\* the mode branch has been taken and the run has not been rejected since
ModeBranchTaken ==
  \/ pc \in {"drillCount", "activate", "capture", "report", "final"}
  \/ pc = "done" /\ browser = "closed"

\* the drill-down loop has been left
DrillDownFinished ==
  \/ pc \in {"report", "final"}
  \/ pc = "done" /\ browser = "closed"

\* the summary has ended and the run has not been rejected since
SummaryEnded == pc = "mode" \/ ModeBranchTaken

\* C21 (as claimed; violated by the summary, which issues the lookups before
\* the mode branch): a lookup is issued only once the mode branch has been
\* taken and, in full-detail mode, only once the drill-down has finished.
C21_EnrichmentAfterModeBranch ==
  [][(lookups' # lookups) =>
       (ModeBranchTaken /\ (~SUMMARY_ONLY_OUTPUT => DrillDownFinished))]_vars

\* C21 (amended): the lookups are issued by the summary, after the strategy
\* chain and before the mode branch: a lookup is issued only while the summary
\* runs, on a result collection that no longer changes and when no drill-down
\* iteration has begun, and once the summary has ended every listed record has
\* had its lookup and none is issued later.
C21_EnrichmentBeforeModeBranch ==
  /\ [][(lookups' # lookups) =>
          (pc = "summary" /\ results' = results /\ iterations = 0
                           /\ openedJobDetails = << >>)]_vars
  /\ [](SummaryEnded => Len(lookups) = Len(jobsToShow(results)))

\* C21 witness: a full-detail run is in its drill-down, capturing a listing,
\* and the lookups of two listed records were issued before.
C21_Witness ==
  /\ ~SUMMARY_ONLY_OUTPUT
  /\ pc = "capture"
  /\ iterations >= 1
  /\ Len(lookups) = 2

\* the summary entry reports the record
Reports(entry, job) ==
  /\ entry.title = (IF job.title = Empty THEN T_NA ELSE job.title)
  /\ entry.company = (IF job.company = Empty THEN T_NA ELSE job.company)
  /\ entry.location = (IF job.location = Empty THEN T_NA ELSE job.location)

C22_WitnessEmpty ==
  /\ pc = "mode"
  /\ results = << >>
  /\ summary = "empty"
  /\ lookups = << >>

\* place or remote vocabulary, or the 'City, Region' shape
HasPlaceProperty(text) ==
  \/ includes(toLowerCase(text), W_srilanka)
  \/ includes(toLowerCase(text), W_colombo)
  \/ includes(toLowerCase(text), W_remote)
  \/ includes(toLowerCase(text), W_hybrid)
  \/ matchesCityRegion(text)

\* C23 (as claimed; violated by the shape scan, which takes any candidate that
\* is not a relative-time string): the location of a record of the fallback
\* strategy is empty or a text with place/remote vocabulary or the 'City,
\* Region' shape, and differs from the company of the record.
C23_LocationHasPlaceProperty ==
  fallbackRan =>
    \A i \in 1..Len(results) :
       results[i].location # Empty =>
         /\ HasPlaceProperty(results[i].location)
         /\ results[i].location # results[i].company

\* the record was made by the shape scan from the element
MadeFrom(job, el) ==
  /\ el.jobTitle # Null
  /\ shapeLinkElement(el) # Null
  /\ job.title = trim(el.jobTitle[1])
  /\ job.link = shapeLinkElement(el)[1].href
  /\ job.company = shapeCompany(el)
  /\ job.location = shapeLocation(el, job.company)

\* the description of a record made from the element when a candidate of at
\* least `least` characters is accepted, selector candidates first, then lines
DescriptionFrom(el, job, least) ==
  LET Fits(text) == /\ text # Empty
                    /\ Len(text) >= least
                    /\ text \notin {job.title, job.company, job.location}
                    /\ ~matchesTimeAgo(text)
      FitsLine(line) == /\ Fits(line)
                        /\ ~includes(toLowerCase(line), W_apply)
                        /\ ~includes(toLowerCase(line), W_view)
      cands == FirstPerSelector(el, descSelectors)
      lines == textLines(el.allText)
      k == FirstIndex(cands, Fits)
      j == FirstIndex(lines, FitsLine)
  IN  IF k # 0 THEN cands[k] ELSE IF j # 0 THEN lines[j] ELSE Empty

\* the records of the result collection that the shape scan made
ShapeRecords == 1..Len(shapeScan(tree.elements, << >>, {}).searchResults)

\* C24 (as claimed; violated by a candidate of exactly 20 characters): the
\* description of a record of the shape scan is the first candidate of at
\* least 20 characters that differs from title, company and location and is
\* not a relative-time string, among the selector candidates and then among
\* the lines.
C24_DescriptionAtLeast20 ==
  (fallbackRan /\ pc = "summary") =>
    \A i \in ShapeRecords :
       \E k \in 1..Len(tree.elements) :
          /\ MadeFrom(results[i], tree.elements[k])
          /\ results[i].description = DescriptionFrom(tree.elements[k], results[i], 20)

\* C24 (amended): the threshold is 'more than 20': the description is the
\* first such candidate of at least 21 characters, and no description of the
\* fallback strategy has 20 characters or fewer.
C24_DescriptionMoreThan20 ==
  (fallbackRan /\ pc = "summary") =>
    /\ \A i \in ShapeRecords :
          \E k \in 1..Len(tree.elements) :
             /\ MadeFrom(results[i], tree.elements[k])
             /\ results[i].description = DescriptionFrom(tree.elements[k], results[i], 21)
    /\ \A i \in 1..Len(results) :
          results[i].description # Empty => Len(results[i].description) > 20

\* C24 witness: a record was made from an element whose first description
\* candidate and last line have exactly 20 characters, and it has no
\* description.
C24_Witness ==
  /\ fallbackRan
  /\ pc = "summary"
  /\ \E i \in ShapeRecords :
        \E k \in 1..Len(tree.elements) :
           /\ MadeFrom(results[i], tree.elements[k])
           /\ FirstPerSelector(tree.elements[k], descSelectors) # << >>
           /\ Len(FirstPerSelector(tree.elements[k], descSelectors)[1]) = 20
           /\ \E l \in 1..Len(textLines(tree.elements[k].allText)) :
                 Len(textLines(tree.elements[k].allText)[l]) = 20
           /\ results[i].description = Empty

\* C24 witness of the accepted case: a description of exactly 21 characters.
C24_WitnessAccepted ==
  /\ fallbackRan
  /\ pc = "summary"
  /\ \E i \in ShapeRecords : Len(results[i].description) = 21

\* C25 (as claimed; violated by every rejection after launch): when the run
\* has ended, by return or by exception, no launched browser is left open.
C25_BrowserClosedAtEnd ==
  pc \in {"done", "failed"} => browser # "open"

=============================================================================
